---- MODULE Spec2Model ----
(***************************************************************************)
(* Model of the FantasyTeam squad manager of touchline-elite-demo          *)
(* (src/src/lib/schema/FantasyTeam.ts): the embedded PlayerSelection list, *)
(* the budget fields and the four instance methods addPlayer,              *)
(* removePlayer, setCaptain and setViceCaptain, each ending in             *)
(* this.save().  Further sections model the Player and Team documents     *)
(* (soft delete, validation, unique sportmonksId), the PlayerStats         *)
(* scoring, the Season transitions, the Match methods and the age check    *)
(* of Player.dateOfBirth.                                                  *)
(***************************************************************************)
EXTENDS Integers, Sequences, FiniteSets

(***************************************************************************)
(* JavaScript numbers.  budget, remainingBudget, totalValue and            *)
(* purchasePrice are IEEE-754 binary64 values and `-=` / `+=` round to 53  *)
(* significant bits, ties to even.  A number is modelled exactly as        *)
(*     s * (hi * 2^29 + lo) * 2^-50                                        *)
(* (two limbs, since the model checker's integers are 32 bits wide).       *)
(* Every value of the model is a multiple of 2^-50 below 2^9, so sums and  *)
(* differences are exact in this form before they are rounded.             *)
(***************************************************************************)
Limb == 2^29

MantHi == 2^24        \* hi >= 2^24  <=>  magnitude >= 2^53

Num(s, hi, lo) == [s |-> s, hi |-> hi, lo |-> lo]

Zero == Num(1, 0, 0)

\* number of low bits that do not fit a 53-bit significand
DropBits(hi) ==
  IF hi < MantHi THEN 0
  ELSE IF hi < 2 * MantHi THEN 1
  ELSE IF hi < 4 * MantHi THEN 2
  ELSE IF hi < 8 * MantHi THEN 3
  ELSE IF hi < 16 * MantHi THEN 4
  ELSE IF hi < 32 * MantHi THEN 5
  ELSE 6

\* round a magnitude (hi, lo) to 53 significant bits, ties to even
RoundMag(hi, lo) ==
  LET d    == DropBits(hi)
      q    == 2^d
      r    == lo % q
      odd  == ((lo \div q) % 2) = 1
      up   == (2 * r > q) \/ (2 * r = q /\ odd)
      lo2  == (lo - r) + (IF up THEN q ELSE 0)
  IN  IF lo2 >= Limb THEN <<hi + 1, lo2 - Limb>> ELSE <<hi, lo2>>

MagLess(a, b) == a.hi < b.hi \/ (a.hi = b.hi /\ a.lo < b.lo)

\* exact a + b for magnitudes, then rounded
MagAdd(s, a, b) ==
  LET l  == a.lo + b.lo
      c  == IF l >= Limb THEN 1 ELSE 0
      m  == RoundMag(a.hi + b.hi + c, l - c * Limb)
  IN  Num(s, m[1], m[2])

\* exact a - b for magnitudes with a >= b, then rounded (100 - 4.1 needs it:
\* the operands' last bits differ in weight)
MagSub(s, a, b) ==
  LET w  == IF a.lo < b.lo THEN 1 ELSE 0
      l  == a.lo + w * Limb - b.lo
      m  == RoundMag(a.hi - b.hi - w, l)
  IN  IF m[1] = 0 /\ m[2] = 0 THEN Zero ELSE Num(s, m[1], m[2])

Neg(a) == IF a = Zero THEN Zero ELSE Num(0 - a.s, a.hi, a.lo)

\* a + b as the double addition computes it
NumAdd(a, b) ==
  IF a.s = b.s THEN MagAdd(a.s, a, b)
  ELSE IF MagLess(a, b) THEN MagSub(b.s, b, a)
  ELSE MagSub(a.s, a, b)

\* a - b
NumSub(a, b) == NumAdd(a, Neg(b))

\* a < b
NumLess(a, b) ==
  IF a.s = 1 /\ b.s = 1 THEN MagLess(a, b)
  ELSE IF a.s = -1 /\ b.s = -1 THEN MagLess(b, a)
  ELSE a.s = -1 /\ b.s = 1

NumLeq(a, b) == a = b \/ NumLess(a, b)

\* the doubles used as inputs (value * 2^50 split in two limbs)
D4_1     == Num(1, 8598323, 107374182)     \* 4.1  (0x4010666666666666)
DNeg4_1  == Num(-1, 8598323, 107374182)    \* -4.1
D5_5     == Num(1, 11534336, 0)            \* 5.5
D8_5     == Num(1, 17825792, 0)            \* 8.5
D100     == Num(1, 209715200, 0)           \* 100.0

(***************************************************************************)
(* Player ids.  The methods take playerId as a string; a selection stores  *)
(* new mongoose.Types.ObjectId(playerId) (12 bytes parsed from 24 hex      *)
(* digits of either case) and the lookups compare                          *)
(* p.playerId.toString(), the lower-case hex rendering, with the argument. *)
(* A string is a sequence of one-character strings, an ObjectId the        *)
(* sequence of its hex digit values.                                       *)
(***************************************************************************)
ObjectIdHexLen == 12 * 2

HexValue ==
  [c \in {"0","1","2","3","4","5","6","7","8","9",
          "a","b","c","d","e","f","A","B","C","D","E","F"} |->
     CASE c = "0" -> 0  [] c = "1" -> 1  [] c = "2" -> 2  [] c = "3" -> 3
       [] c = "4" -> 4  [] c = "5" -> 5  [] c = "6" -> 6  [] c = "7" -> 7
       [] c = "8" -> 8  [] c = "9" -> 9
       [] c \in {"a", "A"} -> 10  [] c \in {"b", "B"} -> 11
       [] c \in {"c", "C"} -> 12  [] c \in {"d", "D"} -> 13
       [] c \in {"e", "E"} -> 14  [] c \in {"f", "F"} -> 15]

HexChars == <<"0","1","2","3","4","5","6","7","8","9","a","b","c","d","e","f">>

\* new mongoose.Types.ObjectId(str) for a valid 24-digit hex string
ObjectId(str) == [i \in 1..Len(str) |-> HexValue[str[i]]]

\* ObjectId.prototype.toString(): lower-case hex
ToString(oid) == [i \in 1..Len(oid) |-> HexChars[oid[i] + 1]]

\* the 24-character string made of one repeated character
Rep(c) == [i \in 1..ObjectIdHexLen |-> c]

(***************************************************************************)
(* State.                                                                  *)
(*   team    the FantasyTeam document the caller holds in memory           *)
(*           (players, budget, remainingBudget, totalValue)                *)
(*   stored  the document as last written by a successful save()          *)
(*   call    the last method call, pre the document before it,             *)
(*   outcome how it ended                                                  *)
(*   ncalls  number of calls made                                          *)
(*   db, reqs  the stored document and the two requests of the concurrent  *)
(*           scenario (SpecConc)                                           *)
(***************************************************************************)
VARIABLES team, stored, call, pre, outcome, ncalls, db, reqs

(***************************************************************************)
(* State of the other models of the repository                             *)
(*   ents      the Player and Team documents: per _id the in-memory        *)
(*             document a caller holds and the stored record               *)
(*   ecall, epre, eout, ecount  the last entity call, ents before it, how  *)
(*             it ended, and the number of calls made                      *)
(*   creators  the concurrent createPlayer / createTeam calls (SpecCreate) *)
(*   stats, sprev, slog  a PlayerStats document, the document before the   *)
(*             last call, and the calls made on it                         *)
(*   season, seacall, seapre, seaout, seacount  a Season document, the     *)
(*             last call on it, the document before it, how it ended, and  *)
(*             the number of calls made                                    *)
(*   now       the clock read by new Date()                                *)
(***************************************************************************)
VARIABLES ents, ecall, epre, eout, ecount, creators,
          stats, sprev, slog,
          season, seacall, seapre, seaout, seacount, now

(***************************************************************************)
(*   match, mcall, mcount  a Match document, the last call on it and the   *)
(*             number of calls made                                        *)
(*   agecheck  a date of birth, the day it is validated, and what the      *)
(*             validator and getAge() make of it                           *)
(***************************************************************************)
VARIABLES match, mcall, mcount, agecheck

matchVars == <<match, mcall, mcount>>

ageVars == <<agecheck>>

squadVars == <<team, stored, call, pre, outcome, ncalls, db, reqs>>

entVars == <<ents, ecall, epre, eout, ecount, creators>>

statVars == <<stats, sprev, slog>>

seasonVars == <<season, seacall, seapre, seaout, seacount>>

vars == <<squadVars, entVars, statVars, seasonVars, matchVars, ageVars, now>>

\* a model that a specification does not exercise holds no documents
SquadIdle ==
  /\ team = <<>> /\ stored = <<>> /\ call = <<>> /\ pre = <<>>
  /\ outcome = "none" /\ ncalls = 0 /\ db = <<>> /\ reqs = <<>>

EntIdle ==
  /\ ents = <<>> /\ ecall = <<>> /\ epre = <<>> /\ eout = <<>>
  /\ ecount = 0 /\ creators = <<>>

StatsIdle == stats = <<>> /\ sprev = <<>> /\ slog = <<>>

MatchIdle == match = <<>> /\ mcall = <<>> /\ mcount = 0

AgeIdle == agecheck = <<>>

SeasonIdle ==
  /\ season = <<>> /\ seacall = <<>> /\ seapre = <<>> /\ seaout = <<>>
  /\ seacount = 0

\* players.validate: at most this many selections; addPlayer's first guard
MaxSquadSize == 15

\* bounds of the exploration
MaxCalls == 4

PlayerIdInputs == {Rep("a"), Rep("A"), Rep("b")}

PriceInputs == {D4_1, D100, DNeg4_1}

IsStartingInputs == {TRUE}

\* the selection addPlayer pushes
Selection(playerId, price, isStarting) ==
  [playerId      |-> ObjectId(playerId),
   purchasePrice |-> price,
   isCaptain     |-> FALSE,
   isViceCaptain |-> FALSE,
   isStarting    |-> isStarting]

\* a new FantasyTeam: no selections, totalValue default 0,
\* remainingBudget = budget
NewTeam(budget) ==
  [players         |-> <<>>,
   budget          |-> budget,
   remainingBudget |-> budget,
   totalValue      |-> Zero]

\* ---- schema validators run by save() ----
PlayersValid(players) == Len(players) <= MaxSquadSize

SelectionValid(p) == NumLeq(Zero, p.purchasePrice)

Validate(t) ==
  /\ PlayersValid(t.players)
  /\ \A i \in 1..Len(t.players) : SelectionValid(t.players[i])
  /\ NumLeq(Zero, t.budget)
  /\ NumLeq(Zero, t.remainingBudget)
  /\ NumLeq(Zero, t.totalValue)

\* ---- addPlayer ----
\* variant: the guard lets a 16th selection through
SquadIsFullOffByOne(t) == Len(t.players) > MaxSquadSize

SquadIsFull(t) == Len(t.players) >= MaxSquadSize

InsufficientBudget(t, price) == NumLess(t.remainingBudget, price)

\* this.players.find(p => p.playerId.toString() === playerId)
Matches(p, playerId) == ToString(p.playerId) = playerId

ExistingPlayer(t, playerId) ==
  \E i \in 1..Len(t.players) : Matches(t.players[i], playerId)

AddPlayerError(t, playerId, price) ==
  IF SquadIsFull(t) THEN "SquadFull"
  ELSE IF InsufficientBudget(t, price) THEN "InsufficientBudget"
  ELSE IF ExistingPlayer(t, playerId) THEN "DuplicatePlayer"
  ELSE "none"

AddPlayerMutate(t, playerId, price, isStarting) ==
  [t EXCEPT !.players = Append(@, Selection(playerId, price, isStarting)),
            !.remainingBudget = NumSub(@, price),
            !.totalValue = NumAdd(@, price)]

\* ---- removePlayer ----
\* findIndex: 0 stands for -1, otherwise the first matching position
PlayerIndex(t, playerId) ==
  IF ExistingPlayer(t, playerId)
  THEN CHOOSE i \in 1..Len(t.players) :
         /\ Matches(t.players[i], playerId)
         /\ \A j \in 1..(i - 1) : ~Matches(t.players[j], playerId)
  ELSE 0

\* players.splice(i, 1)
Splice(players, i) ==
  [j \in 1..(Len(players) - 1) |-> IF j < i THEN players[j] ELSE players[j + 1]]

\* variant: the selection is removed without the refund
RemovePlayerNoRefund(t, i) ==
  [t EXCEPT !.totalValue = NumSub(@, t.players[i].purchasePrice),
            !.players = Splice(@, i)]

RemovePlayerMutate(t, i) ==
  [t EXCEPT !.remainingBudget = NumAdd(@, t.players[i].purchasePrice),
            !.totalValue = NumSub(@, t.players[i].purchasePrice),
            !.players = Splice(@, i)]

\* ---- setCaptain / setViceCaptain ----
SetCaptainMutate(t, playerId) ==
  LET ps == t.players
  IN  [t EXCEPT !.players =
         [i \in 1..Len(ps) |->
            IF Matches(ps[i], playerId)
            THEN [ps[i] EXCEPT !.isCaptain = TRUE, !.isViceCaptain = FALSE]
            ELSE [ps[i] EXCEPT !.isCaptain = FALSE]]]

SetViceCaptainMutate(t, playerId) ==
  LET ps == t.players
  IN  [t EXCEPT !.players =
         [i \in 1..Len(ps) |->
            IF Matches(ps[i], playerId)
            THEN [ps[i] EXCEPT !.isViceCaptain = TRUE, !.isCaptain = FALSE]
            ELSE [ps[i] EXCEPT !.isViceCaptain = FALSE]]]

\* ---- this.save() of the single in-memory document ----
\* validation runs first; a rejected save writes nothing and leaves the
\* in-memory document as the method changed it
SaveOutcome(t) == IF Validate(t) THEN "ok" ELSE "ValidationError"

Saved(t, old) == IF Validate(t) THEN t ELSE old

(***************************************************************************)
(* Initial states: a newly created team, or a team that already went       *)
(* through 14 successful addPlayer calls (so that the squad limit is in    *)
(* reach of MaxCalls further calls).                                       *)
(***************************************************************************)
DefaultBudget == D100

PriorIds == <<"0", "1", "2", "3", "4", "5", "6", "7", "8", "9", "c", "d", "e", "f">>

\* addPlayer followed by its save, as one call on document t
AfterAddPlayer(t, playerId, price, isStarting) ==
  IF AddPlayerError(t, playerId, price) = "none"
  THEN AddPlayerMutate(t, playerId, price, isStarting)
  ELSE t

RECURSIVE TeamAfterAdds(_)
TeamAfterAdds(n) ==
  IF n = 0 THEN NewTeam(DefaultBudget)
  ELSE AfterAddPlayer(TeamAfterAdds(n - 1), Rep(PriorIds[n]), D5_5, TRUE)

NoCall == [op |-> "none", playerId |-> <<>>, price |-> Zero]

InitTeams == {TeamAfterAdds(0), TeamAfterAdds(Len(PriorIds))}

NoReqs == <<>>

Init ==
  /\ team \in InitTeams
  /\ stored = team
  /\ call = NoCall
  /\ pre = team
  /\ outcome = "none"
  /\ ncalls = 0
  /\ db = [doc |-> team, v |-> 0]
  /\ reqs = NoReqs
  /\ EntIdle /\ StatsIdle /\ SeasonIdle /\ MatchIdle /\ AgeIdle /\ now = 0

\* what every method call records
Called(op, playerId, price) ==
  /\ ncalls < MaxCalls
  /\ ncalls' = ncalls + 1
  /\ call' = [op |-> op, playerId |-> playerId, price |-> price]
  /\ pre' = team
  /\ UNCHANGED <<db, reqs, entVars, statVars, seasonVars, matchVars, ageVars, now>>

AddPlayer(playerId, price, isStarting) ==
  /\ Called("addPlayer", playerId, price)
  /\ LET err == AddPlayerError(team, playerId, price)
         t   == AddPlayerMutate(team, playerId, price, isStarting)
     IN  IF err # "none"
         THEN /\ outcome' = err
              /\ UNCHANGED <<team, stored>>
         ELSE /\ team' = t
              /\ stored' = Saved(t, stored)
              /\ outcome' = SaveOutcome(t)

RemovePlayer(playerId) ==
  /\ Called("removePlayer", playerId, Zero)
  /\ LET i == PlayerIndex(team, playerId)
         t == RemovePlayerMutate(team, i)
     IN  IF i = 0
         THEN /\ outcome' = "PlayerNotFound"
              /\ UNCHANGED <<team, stored>>
         ELSE /\ team' = t
              /\ stored' = Saved(t, stored)
              /\ outcome' = SaveOutcome(t)

SetCaptain(playerId) ==
  /\ Called("setCaptain", playerId, Zero)
  /\ LET t == SetCaptainMutate(team, playerId)
     IN  /\ team' = t
         /\ stored' = Saved(t, stored)
         /\ outcome' = SaveOutcome(t)

SetViceCaptain(playerId) ==
  /\ Called("setViceCaptain", playerId, Zero)
  /\ LET t == SetViceCaptainMutate(team, playerId)
     IN  /\ team' = t
         /\ stored' = Saved(t, stored)
         /\ outcome' = SaveOutcome(t)

\* any call of the four methods, with prices drawn from the given set
SquadCall(prices) ==
  \/ \E playerId \in PlayerIdInputs, price \in prices,
        isStarting \in IsStartingInputs :
       AddPlayer(playerId, price, isStarting)
  \/ \E playerId \in PlayerIdInputs : RemovePlayer(playerId)
  \/ \E playerId \in PlayerIdInputs : SetCaptain(playerId)
  \/ \E playerId \in PlayerIdInputs : SetViceCaptain(playerId)

\* every price a caller can pass, negative ones included
Next == SquadCall(PriceInputs)

Spec == Init /\ [][Next]_vars

\* callers that only pass prices the schema accepts (purchasePrice >= 0)
NextValidPrices == SquadCall({price \in PriceInputs : NumLeq(Zero, price)})

SpecValidPrices == Init /\ [][NextValidPrices]_vars

(***************************************************************************)
(* Concurrent requests on one stored FantasyTeam.  Each request loads the  *)
(* document (findById), calls addPlayer or removePlayer on its own copy    *)
(* and the method's this.save() then writes to the database.  save() of a  *)
(* loaded document sends only what the copy changed:                       *)
(*   - players.push        -> $push of the new selection, __v incremented, *)
(*                            no condition on __v                          *)
(*   - players.splice      -> $set of the whole array, conditional on the  *)
(*                            stored __v being the loaded one (else        *)
(*                            VersionError), __v incremented               *)
(*   - remainingBudget, totalValue -> $set to the copy's values            *)
(***************************************************************************)
ConcRequests == {1, 2}

ConcIds == {Rep("a"), Rep("b")}

ConcPrices == {D8_5, D5_5}

ConcOps == {"addPlayer", "removePlayer"}

\* the stored team of the scenario: one successful addPlayer done
ConcStoredTeam == AfterAddPlayer(NewTeam(DefaultBudget), Rep("a"), D8_5, TRUE)

NewRequest ==
  [pc |-> "start", op |-> "none", playerId |-> <<>>, price |-> Zero,
   doc |-> ConcStoredTeam, v |-> 0, outcome |-> "none"]

InitConc ==
  /\ team = NewTeam(DefaultBudget)
  /\ stored = team
  /\ call = NoCall
  /\ pre = team
  /\ outcome = "none"
  /\ ncalls = 0
  /\ db = [doc |-> ConcStoredTeam, v |-> 0]
  /\ reqs = [r \in ConcRequests |-> NewRequest]
  /\ EntIdle /\ StatsIdle /\ SeasonIdle /\ MatchIdle /\ AgeIdle /\ now = 0

\* Model.findById: the request gets its own copy of the stored document
Load(r, op, playerId, price) ==
  /\ reqs[r].pc = "start"
  /\ reqs' = [reqs EXCEPT ![r] =
       [pc |-> "loaded", op |-> op, playerId |-> playerId, price |-> price,
        doc |-> db.doc, v |-> db.v, outcome |-> "none"]]
  /\ UNCHANGED <<team, stored, call, pre, outcome, ncalls, db>>
  /\ UNCHANGED <<entVars, statVars, seasonVars, matchVars, ageVars, now>>

\* the synchronous part of addPlayer / removePlayer on the request's copy
CallMethod(r) ==
  /\ reqs[r].pc = "loaded"
  /\ LET q == reqs[r]
         err == AddPlayerError(q.doc, q.playerId, q.price)
         i == PlayerIndex(q.doc, q.playerId)
     IN  reqs' = [reqs EXCEPT ![r] =
           IF q.op = "addPlayer"
           THEN IF err # "none"
                THEN [q EXCEPT !.pc = "done", !.outcome = err]
                ELSE [q EXCEPT !.pc = "saving",
                               !.doc = AddPlayerMutate(q.doc, q.playerId, q.price, TRUE)]
           ELSE IF i = 0
                THEN [q EXCEPT !.pc = "done", !.outcome = "PlayerNotFound"]
                ELSE [q EXCEPT !.pc = "saving", !.doc = RemovePlayerMutate(q.doc, i)]]
  /\ UNCHANGED <<team, stored, call, pre, outcome, ncalls, db>>
  /\ UNCHANGED <<entVars, statVars, seasonVars, matchVars, ageVars, now>>

\* the update addPlayer's save() sends: $push + $set + $inc __v
PushUpdate(d, q) ==
  [doc |-> [d.doc EXCEPT !.players = Append(@, q.doc.players[Len(q.doc.players)]),
                         !.remainingBudget = q.doc.remainingBudget,
                         !.totalValue = q.doc.totalValue],
   v |-> d.v + 1]

\* the update removePlayer's save() sends: $set players + $set + $inc __v
SetArrayUpdate(d, q) ==
  [doc |-> [d.doc EXCEPT !.players = q.doc.players,
                         !.remainingBudget = q.doc.remainingBudget,
                         !.totalValue = q.doc.totalValue],
   v |-> d.v + 1]

\* this.save() of a request: validation, then one updateOne on the store
SaveDoc(r) ==
  /\ reqs[r].pc = "saving"
  /\ LET q == reqs[r]
     IN  IF ~Validate(q.doc)
         THEN /\ reqs' = [reqs EXCEPT ![r] = [q EXCEPT !.pc = "done", !.outcome = "ValidationError"]]
              /\ UNCHANGED db
         ELSE IF q.op = "addPlayer"
         THEN /\ db' = PushUpdate(db, q)
              /\ reqs' = [reqs EXCEPT ![r] = [q EXCEPT !.pc = "done", !.outcome = "ok"]]
         ELSE IF db.v # q.v
         THEN /\ reqs' = [reqs EXCEPT ![r] = [q EXCEPT !.pc = "done", !.outcome = "VersionError"]]
              /\ UNCHANGED db
         ELSE /\ db' = SetArrayUpdate(db, q)
              /\ reqs' = [reqs EXCEPT ![r] = [q EXCEPT !.pc = "done", !.outcome = "ok"]]
  /\ UNCHANGED <<team, stored, call, pre, outcome, ncalls>>
  /\ UNCHANGED <<entVars, statVars, seasonVars, matchVars, ageVars, now>>

NextConc ==
  \/ \E r \in ConcRequests, op \in ConcOps, playerId \in ConcIds, price \in ConcPrices :
       Load(r, op, playerId, price)
  \/ \E r \in ConcRequests : CallMethod(r)
  \/ \E r \in ConcRequests : SaveDoc(r)

SpecConc == InitConc /\ [][NextConc]_vars

(***************************************************************************)
(* Player and Team documents: schemas, validation, the soft-delete query   *)
(* hook and the unique sportmonksId index                                  *)
(***************************************************************************)
\* deletedAt: null, and a Date holding clock value t
Null == <<>>

Date(t) == <<t>>

\* no document: an unused _id, or the stored side of a hard-deleted record
NoDoc == [kind |-> "none"]

PlayerPosition == {"Goalkeeper", "Defender", "Midfielder", "Forward"}

\* max of foundedYear: new Date().getFullYear() when the schema is loaded
CurrentYear == 2026

\* String.prototype.trim of the `trim: true` setter, on character sequences
RECURSIVE TrimStart(_)
TrimStart(s) == IF s # <<>> /\ Head(s) = " " THEN TrimStart(Tail(s)) ELSE s

RECURSIVE TrimEnd(_)
TrimEnd(s) ==
  IF s # <<>> /\ s[Len(s)] = " " THEN TrimEnd(SubSeq(s, 1, Len(s) - 1)) ELSE s

Trim(s) == TrimEnd(TrimStart(s))

Http == <<"h", "t", "t", "p", ":", "/", "/">>

Https == <<"h", "t", "t", "p", "s", ":", "/", "/">>

\* /^https?:\/\/.+/.test(value)
UrlRegexTest(value) ==
  \/ Len(value) > Len(Http) /\ SubSeq(value, 1, Len(Http)) = Http
  \/ Len(value) > Len(Https) /\ SubSeq(value, 1, Len(Https)) = Https

\* the setters a schema path runs on assignment
Cast(field, value) ==
  IF field \in {"imageUrl", "logoUrl"} THEN Trim(value) ELSE value

AssignClearsDeletedAt(doc, data) ==
  [f \in DOMAIN doc \cup DOMAIN data |->
     IF f = "deletedAt" THEN Null
     ELSE IF f \in DOMAIN data THEN Cast(f, data[f]) ELSE doc[f]]

\* Object.assign(this, data): the fields of data overwrite those of doc
Assign(doc, data) ==
  [f \in DOMAIN doc \cup DOMAIN data |->
     IF f \in DOMAIN data THEN Cast(f, data[f]) ELSE doc[f]]

\* schema defaults of a new document
Defaults(kind) ==
  IF kind = "Player"
  THEN [kind |-> "Player", deletedAt |-> Null]
  ELSE [kind |-> "Team", isActive |-> TRUE, deletedAt |-> Null]

\* new this(data)
New(kind, data) == Assign(Defaults(kind), data)

\* the validators of each path, in schema order; the first failing
\* validator of a path gives the path's message
SportmonksIdErrors(d) ==
  IF d.sportmonksId > 0 THEN {} ELSE {"SportMonks ID must be positive"}

PositionErrors(d) ==
  IF d.position \in PlayerPosition THEN {}
  ELSE {"Position must be one of: Goalkeeper, Defender, Midfielder, Forward"}

HeightErrorsNoMin(d) ==
  IF d.height > 250 THEN {"Height must be between 100cm and 250cm"}
  ELSE IF ~(d.height = 0 \/ d.height > 0) THEN {"Height must be a positive integer"}
  ELSE {}

HeightErrors(d) ==
  IF d.height < 100 THEN {"Height must be between 100cm and 250cm"}
  ELSE IF d.height > 250 THEN {"Height must be between 100cm and 250cm"}
  ELSE IF ~(d.height = 0 \/ d.height > 0) THEN {"Height must be a positive integer"}
  ELSE {}

ImageUrlErrors(d) ==
  IF d.imageUrl = <<>> \/ UrlRegexTest(d.imageUrl) THEN {}
  ELSE {"Image URL must be a valid HTTP/HTTPS URL"}

LogoUrlErrors(d) ==
  IF d.logoUrl = <<>> \/ UrlRegexTest(d.logoUrl) THEN {}
  ELSE {"Logo URL must be a valid HTTP/HTTPS URL"}

FoundedYearErrors(d) ==
  IF d.foundedYear < 1800 THEN {"Founded year must be after 1800"}
  ELSE IF d.foundedYear > CurrentYear THEN {"Founded year cannot be in the future"}
  ELSE {}

\* document.validate(): the messages of the paths that fail
ValidationErrors(d) ==
  IF d.kind = "Player"
  THEN SportmonksIdErrors(d) \cup PositionErrors(d) \cup HeightErrors(d)
         \cup ImageUrlErrors(d)
  ELSE SportmonksIdErrors(d) \cup LogoUrlErrors(d) \cup FoundedYearErrors(d)

\* bounds of the exploration
MaxEntities == 2

MaxEntityCalls == 4

EntityIds == 1..MaxEntities

NoEntity == [mem |-> NoDoc, sto |-> NoDoc]

\* the records of a model's collection, by _id
Collection(kind) == {i \in DOMAIN ents : ents[i].sto.kind = kind}

\* query conditions on a path: none, equality, $ne
Any == [op |-> "any"]

Eq(v) == [op |-> "eq", val |-> v]

Ne(v) == [op |-> "ne", val |-> v]

\* !query.deletedAt
Falsy(cond) == cond.op = "any" \/ (cond.op = "eq" /\ cond.val = Null)

PreFindNoFilter(query) == query

\* pre(/^find/): queries that do not mention deletedAt see only live records
PreFind(query) ==
  IF Falsy(query.deletedAt) THEN [query EXCEPT !.deletedAt = Eq(Null)] ELSE query

Holds(cond, v) ==
  CASE cond.op = "any" -> TRUE
    [] cond.op = "eq" -> v = cond.val
    [] cond.op = "ne" -> v # cond.val

\* a find/findOne query: the hook, then the match against the collection
Find(kind, filter) ==
  LET query == PreFind(filter)
  IN  {i \in Collection(kind) : /\ Holds(query._id, i)
                                /\ Holds(query.deletedAt, ents[i].sto.deletedAt)}

\* Model.find({})
FindAll(kind) == Find(kind, [_id |-> Any, deletedAt |-> Any])

\* Model.findById(id)
FindById(kind, id) == Find(kind, [_id |-> Eq(id), deletedAt |-> Any])

\* Model.findDeleted(): find({ deletedAt: { $ne: null } })
FindDeleted(kind) == Find(kind, [_id |-> Any, deletedAt |-> Ne(Null)])

DuplicateKeyAmongVisible(kind, doc) ==
  \E i \in FindAll(kind) : ents[i].sto.sportmonksId = doc.sportmonksId

\* the unique index on sportmonksId covers every record of the collection
DuplicateKey(kind, doc) ==
  \E i \in Collection(kind) : ents[i].sto.sportmonksId = doc.sportmonksId

Ok == [status |-> "ok", errors |-> {}]

ValidationError(errors) == [status |-> "ValidationError", errors |-> errors]

DuplicateKeyError == [status |-> "DuplicateKey", errors |-> {}]

InsertOutcomeNoIndex(kind, doc) == Ok

\* insertOne of save() on a new document, against the unique index
InsertOutcome(kind, doc) ==
  IF DuplicateKey(kind, doc) THEN DuplicateKeyError ELSE Ok

\* document.save() of a stored document: validation, then the write
SaveEntity(e, m) ==
  IF ValidationErrors(m) # {}
  THEN [ent |-> [e EXCEPT !.mem = m], out |-> ValidationError(ValidationErrors(m))]
  ELSE [ent |-> [mem |-> m, sto |-> m], out |-> Ok]

\* a document a caller holds whose record is in the collection
Live(i) == ents[i].mem.kind # "none" /\ ents[i].sto.kind # "none"

Unused(i) == ents[i].mem.kind = "none" /\ ents[i].sto.kind = "none"

NoEntityCall == [op |-> "none", kind |-> "none", id |-> 0, data |-> <<>>, hard |-> FALSE]

\* what every entity call records
EntityCalled(op, kind, id, data, hard) ==
  /\ ecount < MaxEntityCalls
  /\ ecount' = ecount + 1
  /\ ecall' = [op |-> op, kind |-> kind, id |-> id, data |-> data, hard |-> hard]
  /\ epre' = ents
  /\ UNCHANGED <<creators, squadVars, statVars, seasonVars, matchVars, ageVars, now>>

\* Model.createPlayer / Model.createTeam: new this(data), validate(), save()
Create(kind, data) ==
  /\ \E i \in EntityIds : Unused(i)
  /\ LET id  == CHOOSE i \in EntityIds : Unused(i) /\ \A j \in EntityIds : Unused(j) => i <= j
         doc == New(kind, data)
     IN  /\ EntityCalled("create", kind, id, data, FALSE)
         /\ IF ValidationErrors(doc) # {}
            THEN /\ eout' = ValidationError(ValidationErrors(doc))
                 /\ UNCHANGED ents
            ELSE IF InsertOutcome(kind, doc) # Ok
            THEN /\ eout' = InsertOutcome(kind, doc)
                 /\ UNCHANGED ents
            ELSE /\ eout' = Ok
                 /\ ents' = [ents EXCEPT ![id] = [mem |-> doc, sto |-> doc]]

\* the call leaves the entity as save() leaves it
Saves(id, m) ==
  /\ ents' = [ents EXCEPT ![id] = SaveEntity(ents[id], m).ent]
  /\ eout' = SaveEntity(ents[id], m).out

\* document.update(data): Object.assign, validate(), save()
Update(id, data) ==
  /\ Live(id)
  /\ EntityCalled("update", ents[id].mem.kind, id, data, FALSE)
  /\ Saves(id, Assign(ents[id].mem, data))

\* the fields a soft delete sets
SoftDeleted(m) ==
  IF m.kind = "Team"
  THEN [m EXCEPT !.deletedAt = Date(now), !.isActive = FALSE]
  ELSE [m EXCEPT !.deletedAt = Date(now)]

\* document.delete(options): deleteOne() when hard, else flag and save()
Delete(id, hard) ==
  /\ Live(id)
  /\ EntityCalled("delete", ents[id].mem.kind, id, <<>>, hard)
  /\ IF hard
     THEN /\ ents' = [ents EXCEPT ![id].sto = NoDoc]
          /\ eout' = Ok
     ELSE Saves(id, SoftDeleted(ents[id].mem))

ActivatedKeepsDeletedAt(m) == [m EXCEPT !.isActive = TRUE]

\* this.isActive = true; this.deletedAt = null
Activated(m) == [m EXCEPT !.isActive = TRUE, !.deletedAt = Null]

\* this.isActive = false
Deactivated(m) == [m EXCEPT !.isActive = FALSE]

\* team.activate()
Activate(id) ==
  /\ Live(id) /\ ents[id].mem.kind = "Team"
  /\ EntityCalled("activate", "Team", id, <<>>, FALSE)
  /\ Saves(id, Activated(ents[id].mem))

\* team.deactivate()
Deactivate(id) ==
  /\ Live(id) /\ ents[id].mem.kind = "Team"
  /\ EntityCalled("deactivate", "Team", id, <<>>, FALSE)
  /\ Saves(id, Deactivated(ents[id].mem))

\* the clock advances between calls
MaxNow == 3

Tick ==
  /\ now < MaxNow
  /\ now' = now + 1
  /\ UNCHANGED <<squadVars, entVars, statVars, seasonVars, matchVars, ageVars>>

\* the payloads callers pass
UrlOk == Https \o <<"a">>

UrlPadded == <<" ">> \o Http \o <<"a">> \o <<" ">>

UrlBad == <<"f", "t", "p", ":", "/", "/", "a">>

PlayerCreateInputs ==
  { [sportmonksId |-> 12345, position |-> "Midfielder", height |-> 180, imageUrl |-> UrlOk],
    [sportmonksId |-> 12345, position |-> "Forward", height |-> 250, imageUrl |-> UrlPadded],
    [sportmonksId |-> 999, position |-> "Defender", height |-> 100, imageUrl |-> <<>>],
    [sportmonksId |-> 0, position |-> "Winger", height |-> 99, imageUrl |-> UrlBad] }

PlayerUpdateInputs ==
  { [height |-> 0 - 10], [height |-> 251], [height |-> 100],
    [position |-> "Winger"], [imageUrl |-> UrlBad],
    [position |-> "Goalkeeper", height |-> 250] }

TeamCreateInputs ==
  { [sportmonksId |-> 12345, foundedYear |-> 1886, logoUrl |-> UrlOk],
    [sportmonksId |-> 12345, foundedYear |-> 1800, logoUrl |-> <<>>, isActive |-> FALSE],
    [sportmonksId |-> 0, foundedYear |-> 1799, logoUrl |-> UrlBad] }

TeamUpdateInputs ==
  { [foundedYear |-> 1799], [foundedYear |-> CurrentYear + 1],
    [foundedYear |-> CurrentYear], [logoUrl |-> UrlBad],
    [isActive |-> TRUE], [isActive |-> FALSE] }

UpdateInputs(kind) ==
  CASE kind = "Player" -> PlayerUpdateInputs
    [] kind = "Team" -> TeamUpdateInputs
    [] OTHER -> {}

NoOutcome == [status |-> "none", errors |-> {}]

InitEntity ==
  /\ ents = [i \in EntityIds |-> NoEntity]
  /\ ecall = NoEntityCall
  /\ epre = ents
  /\ eout = NoOutcome
  /\ ecount = 0
  /\ creators = <<>>
  /\ SquadIdle /\ StatsIdle /\ SeasonIdle /\ MatchIdle /\ AgeIdle /\ now = 0

NextEntity ==
  \/ \E data \in PlayerCreateInputs : Create("Player", data)
  \/ \E data \in TeamCreateInputs : Create("Team", data)
  \/ \E id \in EntityIds : \E data \in UpdateInputs(ents[id].mem.kind) : Update(id, data)
  \/ \E id \in EntityIds, hard \in BOOLEAN : Delete(id, hard)
  \/ \E id \in EntityIds : Activate(id)
  \/ \E id \in EntityIds : Deactivate(id)
  \/ Tick

SpecEntity == InitEntity /\ [][NextEntity]_vars

(***************************************************************************)
(* Concurrent createPlayer / createTeam calls with one sportmonksId: each  *)
(* call awaits validate() and then save(), so the calls interleave at      *)
(* those two steps; the insert itself is atomic in the store               *)
(***************************************************************************)
NumCreators == 5

Creators == 1..NumCreators

\* the payload every concurrent call passes
ConcCreateData(kind) ==
  IF kind = "Player"
  THEN [sportmonksId |-> 12345, position |-> "Midfielder", height |-> 180, imageUrl |-> UrlOk]
  ELSE [sportmonksId |-> 12345, foundedYear |-> 1886, logoUrl |-> UrlOk]

NewCreator(kind) ==
  [pc |-> "start", doc |-> New(kind, ConcCreateData(kind)), out |-> NoOutcome]

InitCreate ==
  /\ \E kind \in {"Player", "Team"} :
       creators = [c \in Creators |-> NewCreator(kind)]
  /\ ents = [c \in Creators |-> NoEntity]
  /\ ecall = NoEntityCall
  /\ epre = ents
  /\ eout = NoOutcome
  /\ ecount = 0
  /\ SquadIdle /\ StatsIdle /\ SeasonIdle /\ MatchIdle /\ AgeIdle /\ now = 0

\* await player.validate()
CreateValidate(c) ==
  /\ creators[c].pc = "start"
  /\ creators' = [creators EXCEPT ![c] =
       IF ValidationErrors(@.doc) # {}
       THEN [@ EXCEPT !.pc = "done", !.out = ValidationError(ValidationErrors(@.doc))]
       ELSE [@ EXCEPT !.pc = "validated"]]
  /\ UNCHANGED <<ents, ecall, epre, eout, ecount, squadVars, statVars, seasonVars, matchVars, ageVars, now>>

\* await player.save(): validation again, then the insert
CreateSave(c) ==
  /\ creators[c].pc = "validated"
  /\ LET doc == creators[c].doc
         out == IF ValidationErrors(doc) # {}
                THEN ValidationError(ValidationErrors(doc))
                ELSE InsertOutcome(doc.kind, doc)
     IN  /\ creators' = [creators EXCEPT ![c] = [@ EXCEPT !.pc = "done", !.out = out]]
         /\ IF out = Ok
            THEN ents' = [ents EXCEPT ![c] = [mem |-> doc, sto |-> doc]]
            ELSE UNCHANGED ents
  /\ UNCHANGED <<ecall, epre, eout, ecount, squadVars, statVars, seasonVars, matchVars, ageVars, now>>

NextCreate ==
  \/ \E c \in Creators : CreateValidate(c)
  \/ \E c \in Creators : CreateSave(c)

SpecCreate == InitCreate /\ [][NextCreate]_vars

(***************************************************************************)
(* PlayerStats documents: updateFantasyPoints                              *)
(*                                                                         *)
(* Point amounts are counted in half points, the granularity of            *)
(* saves * 0.5: with integer counts every intermediate value of the code   *)
(* is a multiple of 0.5 far below 2^53, so its double arithmetic is exact. *)
(* A quotient is kept as the reduced fraction it rounds: equal fractions   *)
(* give equal doubles.                                                     *)
(***************************************************************************)
\* n points, and n * 0.5 points
Points(n) == 2 * n

HalfPoints(n) == n

RECURSIVE Gcd(_, _)
Gcd(a, b) == IF b = 0 THEN a ELSE Gcd(b, a % b)

\* points / count, for points >= 0 and count > 0
Quotient(points, count) ==
  LET g == Gcd(points, 2 * count)
  IN  [num |-> points \div g, den |-> (2 * count) \div g]

\* the number 0 of the `: 0` branches
ZeroQuotient == [num |-> 0, den |-> 1]

\* Math.max(a, b)
MathMax(a, b) == IF a >= b THEN a ELSE b

BonusStrict(minutesPlayed) ==
  IF minutesPlayed > 60 THEN Points(2)
  ELSE IF minutesPlayed >= 1 THEN Points(1)
  ELSE Points(0)

\* the appearance bonus added at the end
Bonus(minutesPlayed) ==
  IF minutesPlayed >= 60 THEN Points(2)
  ELSE IF minutesPlayed >= 1 THEN Points(1)
  ELSE Points(0)

\* let points = 0; points += ...; points -= ...; the bonus
ComputePoints(performance) ==
  LET p0  == Points(0)
      p1  == p0 + Points(performance.appearances * 1)
      p2  == p1 + Points(performance.goals * 4)
      p3  == p2 + Points(performance.assists * 3)
      p4  == p3 + Points(performance.cleanSheets * 4)
      p5  == p4 + HalfPoints(performance.saves)
      p6  == p5 + Points(performance.penaltiesSaved * 5)
      p7  == p6 - Points(performance.penaltiesMissed * 2)
      p8  == p7 - Points(performance.yellowCards * 1)
      p9  == p8 - Points(performance.redCards * 3)
      p10 == p9 - Points(performance.ownGoals * 2)
  IN  p10 + Bonus(performance.minutesPlayed)

\* the three assignments to this.fantasy
Derived(performance, fantasyPoints) ==
  [fantasyPoints   |-> fantasyPoints,
   averagePoints   |-> IF performance.appearances > 0
                       THEN Quotient(fantasyPoints, performance.appearances)
                       ELSE ZeroQuotient,
   pointsPerMinute |-> IF performance.minutesPlayed > 0
                       THEN Quotient(fantasyPoints, performance.minutesPlayed)
                       ELSE ZeroQuotient]

UpdateFantasyPointsAccumulates(s) ==
  [s EXCEPT !.fantasy =
     Derived(s.performance,
             MathMax(Points(0), s.fantasy.fantasyPoints + ComputePoints(s.performance)))]

\* the document after the assignments of updateFantasyPoints
UpdateFantasyPointsMutate(s) ==
  [s EXCEPT !.fantasy =
     Derived(s.performance, MathMax(Points(0), ComputePoints(s.performance)))]

PerformanceFields ==
  {"appearances", "starts", "minutesPlayed", "goals", "assists", "yellowCards",
   "redCards", "cleanSheets", "saves", "penaltiesSaved", "penaltiesMissed",
   "ownGoals"}

\* the min: [0, ...] validators of PerformanceStatsSchema and FantasyStatsSchema
StatsValid(s) ==
  /\ \A f \in PerformanceFields : s.performance[f] >= 0
  /\ s.fantasy.fantasyPoints >= 0
  /\ s.fantasy.averagePoints.num >= 0
  /\ s.fantasy.pointsPerMinute.num >= 0

MaxStatCalls == 3

\* the performance snapshots a PlayerStats document is created with
PerformanceInputs ==
  [appearances : {0, 3}, starts : {0}, minutesPlayed : {0, 59, 60},
   goals : {0, 1}, assists : {0, 1}, yellowCards : {0, 1}, redCards : {0, 1},
   cleanSheets : {0, 1}, saves : {0, 3}, penaltiesSaved : {0, 1},
   penaltiesMissed : {0, 2}, ownGoals : {0, 3}]

\* the fantasy values it holds before the call: the defaults, or stale ones
FantasyInputs ==
  { [fantasyPoints |-> Points(0), averagePoints |-> ZeroQuotient,
     pointsPerMinute |-> ZeroQuotient],
    [fantasyPoints |-> Points(7), averagePoints |-> Quotient(Points(7), 2),
     pointsPerMinute |-> ZeroQuotient] }

\* the snapshots written to performance between calls
PerformanceUpdates ==
  { [appearances |-> 1, starts |-> 1, minutesPlayed |-> 90, goals |-> 2,
     assists |-> 0, yellowCards |-> 0, redCards |-> 0, cleanSheets |-> 0,
     saves |-> 0, penaltiesSaved |-> 0, penaltiesMissed |-> 0, ownGoals |-> 0],
    [appearances |-> 2, starts |-> 0, minutesPlayed |-> 1, goals |-> 0,
     assists |-> 0, yellowCards |-> 1, redCards |-> 1, cleanSheets |-> 0,
     saves |-> 1, penaltiesSaved |-> 0, penaltiesMissed |-> 1, ownGoals |-> 1],
    [appearances |-> 1, starts |-> 0, minutesPlayed |-> 30, goals |-> 0,
     assists |-> 0, yellowCards |-> 0 - 1, redCards |-> 0, cleanSheets |-> 0,
     saves |-> 0, penaltiesSaved |-> 0, penaltiesMissed |-> 0, ownGoals |-> 0] }

InitStats ==
  /\ \E performance \in PerformanceInputs, fantasy \in FantasyInputs :
       stats = [doc |-> [performance |-> performance, fantasy |-> fantasy],
                sto |-> [performance |-> performance, fantasy |-> fantasy]]
  /\ sprev = stats
  /\ slog = <<>>
  /\ SquadIdle /\ EntIdle /\ SeasonIdle /\ MatchIdle /\ AgeIdle /\ now = 0

\* what every call on the document records
StatsCalled(op) ==
  /\ Len(slog) < MaxStatCalls
  /\ slog' = Append(slog, op)
  /\ sprev' = stats
  /\ UNCHANGED <<squadVars, entVars, seasonVars, matchVars, ageVars, now>>

\* stats.updateFantasyPoints(): the assignments, then this.save()
UpdateFantasyPoints ==
  /\ StatsCalled("updateFantasyPoints")
  /\ LET d == UpdateFantasyPointsMutate(stats.doc)
     IN  stats' = [doc |-> d, sto |-> IF StatsValid(d) THEN d ELSE stats.sto]

\* stats.performance = snapshot, on the in-memory document
SetPerformance(performance) ==
  /\ StatsCalled("setPerformance")
  /\ stats' = [stats EXCEPT !.doc.performance = performance]

NextStats ==
  \/ UpdateFantasyPoints
  \/ \E performance \in PerformanceUpdates : SetPerformance(performance)

SpecStats == InitStats /\ [][NextStats]_vars

(***************************************************************************)
(* Season documents: the explicit transitions, the gameweek counter, the   *)
(* transfer deadline and the date-derived transition of the pre-save hook  *)
(***************************************************************************)
SeasonStatus == {"upcoming", "active", "completed", "cancelled"}

\* date.getTime()
Time(date) == date[1]

\* document.validate() of a Season: the validators of its paths
SeasonValid(s) ==
  /\ Time(s.endDate) > Time(s.startDate)
  /\ s.currentGameweek >= 1 /\ s.currentGameweek <= s.totalGameweeks
  /\ s.totalGameweeks >= 1 /\ s.totalGameweeks <= 50
  /\ s.status \in SeasonStatus
  /\ \/ s.transferDeadline = Null
     \/ /\ Time(s.transferDeadline) >= Time(s.startDate)
        /\ Time(s.transferDeadline) <= Time(s.endDate)

StartedWhateverStatus(s) ==
  /\ s.status \notin {"active", "completed"}
  /\ Time(s.startDate) <= now /\ Time(s.endDate) >= now

\* the conditions of the pre-save hook, with now = new Date()
Started(s) ==
  s.status = "upcoming" /\ Time(s.startDate) <= now /\ Time(s.endDate) >= now

Ended(s) == s.status = "active" /\ Time(s.endDate) < now

PromotedWithFantasy(s) == [s EXCEPT !.status = "active", !.isFantasyActive = TRUE]

\* this.status = SeasonStatus.ACTIVE
Promoted(s) == [s EXCEPT !.status = "active"]

AutoCompletedKeepsFantasy(s) == [s EXCEPT !.status = "completed"]

\* this.status = SeasonStatus.COMPLETED; this.isFantasyActive = false
AutoCompleted(s) == [s EXCEPT !.status = "completed", !.isFantasyActive = FALSE]

\* pre('save'): the date-derived transition
PreSave(s) ==
  IF Started(s) THEN Promoted(s)
  ELSE IF Ended(s) THEN AutoCompleted(s)
  ELSE s

\* this.save(): validation, then the pre-save hook, then the write
SaveSeason(se, d) ==
  IF ~SeasonValid(d)
  THEN [season |-> [se EXCEPT !.doc = d], out |-> "ValidationError"]
  ELSE [season |-> [doc |-> PreSave(d), sto |-> PreSave(d)], out |-> "ok"]

CanActivateUnlessActive(s) == s.status # "active"

\* the guards of the four methods
CanActivate(s) == s.status = "upcoming"

CanComplete(s) == s.status = "active"

CanAdvanceWhileOpen(s) ==
  s.status \in {"upcoming", "active"} /\ s.currentGameweek < s.totalGameweeks

CanAdvance(s) == s.currentGameweek < s.totalGameweeks

DeadlineOutside(s, deadline) ==
  Time(deadline) < Time(s.startDate) \/ Time(deadline) > Time(s.endDate)

MaxSeasonCalls == 3

\* the seasons that exist when the first call is made; they were saved
\* before their start date
SeasonInputs ==
  [startDate : {Date(1)}, endDate : {Date(2)},
   currentGameweek : {1, 2}, totalGameweeks : {2},
   status : SeasonStatus, isFantasyActive : BOOLEAN,
   transferDeadline : {Null, Date(1)}]

DeadlineInputs == {Date(t) : t \in 0..3}

NoSeasonCall == [op |-> "none", deadline |-> Null, at |-> 0]

InitSeason ==
  /\ \E s \in SeasonInputs : season = [doc |-> s, sto |-> s]
  /\ seacall = NoSeasonCall
  /\ seapre = season
  /\ seaout = "none"
  /\ seacount = 0
  /\ now = 0
  /\ SquadIdle /\ EntIdle /\ StatsIdle /\ MatchIdle /\ AgeIdle

\* what every call on the season records
SeasonCalled(op, deadline) ==
  /\ seacount < MaxSeasonCalls
  /\ seacount' = seacount + 1
  /\ seacall' = [op |-> op, deadline |-> deadline, at |-> now]
  /\ seapre' = season
  /\ UNCHANGED <<squadVars, entVars, statVars, matchVars, ageVars, now>>

\* the call throws before touching the document
Throws(message) == seaout' = message /\ UNCHANGED season

\* the call leaves the season as save() leaves it
SeasonSaves(d) ==
  /\ season' = SaveSeason(season, d).season
  /\ seaout' = SaveSeason(season, d).out

AdvancedByTwo(s) == [s EXCEPT !.currentGameweek = @ + 2]

\* this.currentGameweek += 1
Advanced(s) == [s EXCEPT !.currentGameweek = @ + 1]

AdvanceGameweek ==
  /\ SeasonCalled("advanceGameweek", Null)
  /\ IF CanAdvance(season.doc)
     THEN SeasonSaves(Advanced(season.doc))
     ELSE Throws("Cannot advance beyond total gameweeks")

ActivateSeason ==
  /\ SeasonCalled("activateSeason", Null)
  /\ IF CanActivate(season.doc)
     THEN SeasonSaves([season.doc EXCEPT !.status = "active", !.isFantasyActive = TRUE])
     ELSE Throws("Can only activate upcoming seasons")

CompletedKeepsFantasy(s) == [s EXCEPT !.status = "completed"]

\* the assignments of completeSeason
Completed(s) == [s EXCEPT !.status = "completed", !.isFantasyActive = FALSE]

CompleteSeason ==
  /\ SeasonCalled("completeSeason", Null)
  /\ IF CanComplete(season.doc)
     THEN SeasonSaves(Completed(season.doc))
     ELSE Throws("Can only complete active seasons")

SetTransferDeadline(deadline) ==
  /\ SeasonCalled("setTransferDeadline", deadline)
  /\ IF DeadlineOutside(season.doc, deadline)
     THEN Throws("Transfer deadline must be within season dates")
     ELSE SeasonSaves([season.doc EXCEPT !.transferDeadline = deadline])

NextSeason ==
  \/ AdvanceGameweek
  \/ ActivateSeason
  \/ CompleteSeason
  \/ \E deadline \in DeadlineInputs : SetTransferDeadline(deadline)
  \/ Tick

SpecSeason == InitSeason /\ [][NextSeason]_vars

\* seasons created with the schema defaults of status and isFantasyActive
InitSeasonDefaults ==
  /\ InitSeason
  /\ season.doc.status = "upcoming"
  /\ ~season.doc.isFantasyActive

SpecSeasonDefaults == InitSeasonDefaults /\ [][NextSeason]_vars

(***************************************************************************)
(* Match documents: updateScore, startMatch, finishMatch, postponeMatch    *)
(***************************************************************************)
\* a path that has no value
Undefined == <<>>

\* the result of a match that has none
NoResult == "undefined"

\* a value of currentMinute
Minute(n) == <<n>>

MatchStatus ==
  {"scheduled", "live", "halftime", "finished", "postponed", "cancelled", "suspended"}

MatchResult == {"home_win", "away_win", "draw"}

\* document.validate() of a Match: the validators of the modelled paths
MatchValid(m) ==
  /\ m.homeTeamScore = Undefined \/ m.homeTeamScore.goals >= 0
  /\ m.awayTeamScore = Undefined \/ m.awayTeamScore.goals >= 0
  /\ m.status \in MatchStatus
  /\ m.result = NoResult \/ m.result \in MatchResult
  /\ m.currentMinute = Undefined \/ m.currentMinute[1] \in 0..120

\* the comparison of updateScore
ResultOf(homeGoals, awayGoals) ==
  IF homeGoals > awayGoals THEN "home_win"
  ELSE IF awayGoals > homeGoals THEN "away_win"
  ELSE "draw"

\* the assignment to homeTeamScore / awayTeamScore
WithGoals(score, teamId, goals) ==
  IF score = Undefined THEN [teamId |-> teamId, goals |-> goals]
  ELSE [score EXCEPT !.goals = goals]

\* the document after the assignments of updateScore
UpdateScoreMutate(m, homeGoals, awayGoals) ==
  [m EXCEPT !.homeTeamScore = WithGoals(@, "homeTeamId", homeGoals),
            !.awayTeamScore = WithGoals(@, "awayTeamId", awayGoals),
            !.result = ResultOf(homeGoals, awayGoals)]

MaxMatchCalls == 4

GoalInputs == {0 - 1, 0, 1, 2}

\* a match created with the schema defaults
NewMatch ==
  [status |-> "scheduled", result |-> NoResult, homeTeamScore |-> Undefined,
   awayTeamScore |-> Undefined, currentMinute |-> Undefined]

InitMatch ==
  /\ match = [doc |-> NewMatch, sto |-> NewMatch]
  /\ mcall = [op |-> "none", out |-> "none"]
  /\ mcount = 0
  /\ SquadIdle /\ EntIdle /\ StatsIdle /\ SeasonIdle /\ AgeIdle /\ now = 0

\* a call that throws leaves the document alone; one that saves stores the
\* document when it is valid
MatchCall(op, guard, d, message) ==
  /\ mcount < MaxMatchCalls
  /\ mcount' = mcount + 1
  /\ IF ~guard
     THEN /\ mcall' = [op |-> op, out |-> message]
          /\ UNCHANGED match
     ELSE IF ~MatchValid(d)
     THEN /\ mcall' = [op |-> op, out |-> "ValidationError"]
          /\ match' = [match EXCEPT !.doc = d]
     ELSE /\ mcall' = [op |-> op, out |-> "ok"]
          /\ match' = [doc |-> d, sto |-> d]
  /\ UNCHANGED <<squadVars, entVars, statVars, seasonVars, ageVars, now>>

UpdateScore(homeGoals, awayGoals) ==
  MatchCall("updateScore", TRUE,
            UpdateScoreMutate(match.doc, homeGoals, awayGoals), "none")

StartMatch ==
  MatchCall("startMatch", match.doc.status = "scheduled",
            [match.doc EXCEPT !.status = "live", !.currentMinute = Minute(0)],
            "Can only start scheduled matches")

FinishMatch ==
  MatchCall("finishMatch", match.doc.status \in {"live", "halftime"},
            [match.doc EXCEPT !.status = "finished", !.currentMinute = Minute(90)],
            "Can only finish live matches")

PostponeMatch ==
  MatchCall("postponeMatch", match.doc.status = "scheduled",
            [match.doc EXCEPT !.status = "postponed"],
            "Can only postpone scheduled matches")

NextMatch ==
  \/ \E homeGoals \in GoalInputs, awayGoals \in GoalInputs :
       UpdateScore(homeGoals, awayGoals)
  \/ StartMatch
  \/ FinishMatch
  \/ PostponeMatch

SpecMatch == InitMatch /\ [][NextMatch]_vars

(***************************************************************************)
(* Player.dateOfBirth: the age validator and getAge                        *)
(*                                                                         *)
(* A Date is Date(t) with t counted in half days since 1970-01-01T00:00,   *)
(* so that a Date has a time of day which getFullYear, getMonth and        *)
(* getDate drop.  The process runs in UTC: new Date(y, m, d) and           *)
(* new Date('yyyy-mm-dd') denote the same midnight.  Months are 0..11 as   *)
(* in the Date API.                                                        *)
(***************************************************************************)
UnitsPerDay == 2

InLeapYear(y) == (y % 4 = 0 /\ y % 100 # 0) \/ y % 400 = 0

\* number of the first day of year y, counted from 1970-01-01
DayFromYear(y) ==
  365 * (y - 1970) + ((y - 1969) \div 4) - ((y - 1901) \div 100)
    + ((y - 1601) \div 400)

\* days of year y before the first of month m (m = 12: the whole year)
DaysBeforeMonth(y, m) ==
  LET before == <<0, 31, 59, 90, 120, 151, 181, 212, 243, 273, 304, 334, 365>>
  IN  before[m + 1] + (IF m >= 2 /\ InLeapYear(y) THEN 1 ELSE 0)

\* new Date(year, month, date): midnight of that day; a date past the end
\* of the month runs over into the next month
MakeDate(year, month, date) ==
  (DayFromYear(year) + DaysBeforeMonth(year, month) + (date - 1)) * UnitsPerDay

SpanYears == 2

Years == 1949..(CurrentYear + SpanYears + 1)

Day(t) == t \div UnitsPerDay

GetFullYear(t) ==
  CHOOSE y \in Years : DayFromYear(y) <= Day(t) /\ Day(t) < DayFromYear(y + 1)

DayWithinYear(t) == Day(t) - DayFromYear(GetFullYear(t))

GetMonth(t) ==
  CHOOSE m \in 0..11 :
    /\ DaysBeforeMonth(GetFullYear(t), m) <= DayWithinYear(t)
    /\ DayWithinYear(t) < DaysBeforeMonth(GetFullYear(t), m + 1)

GetDate(t) == DayWithinYear(t) - DaysBeforeMonth(GetFullYear(t), GetMonth(t)) + 1

\* const fifteenYearsAgo = new Date(today.getFullYear() - 15, today.getMonth(), today.getDate())
FifteenYearsAgo(today) ==
  MakeDate(GetFullYear(today) - 15, GetMonth(today), GetDate(today))

\* new Date('1950-01-01')
Date1950 == MakeDate(1950, 0, 1)

\* the validator of dateOfBirth, with a strict upper comparison
DateOfBirthValidatorStrict(value, today) ==
  IF value = Null THEN TRUE
  ELSE Time(value) < FifteenYearsAgo(today) /\ Time(value) >= Date1950

\* the validator of dateOfBirth
DateOfBirthValidator(value, today) ==
  IF value = Null THEN TRUE
  ELSE Time(value) <= FifteenYearsAgo(today) /\ Time(value) >= Date1950

\* the outcome of validating dateOfBirth
DateOfBirthOutcome(value, today) ==
  IF DateOfBirthValidator(value, today) THEN "ok"
  ELSE "Player must be at least 15 years old"

\* player.getAge(): Null, or <<age>>
GetAge(dateOfBirth, today) ==
  IF dateOfBirth = Null THEN Null
  ELSE LET birthDate == Time(dateOfBirth)
           age == GetFullYear(today) - GetFullYear(birthDate)
           monthDiff == GetMonth(today) - GetMonth(birthDate)
       IN  IF monthDiff < 0 \/ (monthDiff = 0 /\ GetDate(today) < GetDate(birthDate))
           THEN <<age - 1>>
           ELSE <<age>>

\* the days of the year the inputs are taken around
CalendarDays == {<<0, 1>>, <<1, 28>>, <<1, 29>>, <<2, 1>>, <<10, 5>>, <<11, 31>>}

\* month m of year y has a day d
IsCalendarDay(y, m, d) == d <= DaysBeforeMonth(y, m + 1) - DaysBeforeMonth(y, m)

TodayYears == CurrentYear..(CurrentYear + SpanYears)

\* new Date() on the chosen days, at midnight and at noon
TodayInputs ==
  { MakeDate(ymd[1], ymd[2][1], ymd[2][2]) + h :
      ymd \in {c \in TodayYears \X CalendarDays : IsCalendarDay(c[1], c[2][1], c[2][2])},
      h \in 0..(UnitsPerDay - 1) }

\* dates of birth without a time of day, around the limits of the validator
BirthInputs ==
  {Null}
  \cup { Date(MakeDate(y - 15, md[1], md[2]) + k * UnitsPerDay) :
           y \in TodayYears, md \in CalendarDays, k \in {0 - 1, 0, 1} }
  \cup { Date(Date1950 + k * UnitsPerDay) : k \in {0 - 1, 0, 1} }

InitAge ==
  /\ agecheck \in [today : TodayInputs, dateOfBirth : BirthInputs,
                   validation : {"none"}, aged : {FALSE}, age : {Null}]
  /\ SquadIdle /\ EntIdle /\ StatsIdle /\ SeasonIdle /\ MatchIdle /\ now = 0

\* the validation of dateOfBirth when the player is saved
ValidateDateOfBirth ==
  /\ agecheck.validation = "none"
  /\ agecheck' = [agecheck EXCEPT
                    !.validation = DateOfBirthOutcome(agecheck.dateOfBirth, agecheck.today)]
  /\ UNCHANGED <<squadVars, entVars, statVars, seasonVars, matchVars, now>>

\* player.getAge() on the same day
CallGetAge ==
  /\ ~agecheck.aged
  /\ agecheck' = [agecheck EXCEPT
                    !.aged = TRUE,
                    !.age = GetAge(agecheck.dateOfBirth, agecheck.today)]
  /\ UNCHANGED <<squadVars, entVars, statVars, seasonVars, matchVars, now>>

NextAge == ValidateDateOfBirth \/ CallGetAge

SpecAge == InitAge /\ [][NextAge]_vars

(***************************************************************************)
(* Properties of the squad manager                                         *)
(***************************************************************************)
Indices(t) == 1..Len(t.players)

Captains(t) == {i \in Indices(t) : t.players[i].isCaptain}

ViceCaptains(t) == {i \in Indices(t) : t.players[i].isViceCaptain}

\* players.reduce((sum, p) => sum + p.purchasePrice, 0)
RECURSIVE SumPrices(_)
SumPrices(players) ==
  IF players = <<>> THEN Zero
  ELSE NumAdd(SumPrices(SubSeq(players, 1, Len(players) - 1)),
              players[Len(players)].purchasePrice)

Failed == outcome \notin {"none", "ok"}

\* C1: after every addPlayer / removePlayer call, successful or failing,
\* remainingBudget + totalValue == budget.
C1_BudgetInvariant ==
  NumAdd(team.remainingBudget, team.totalValue) = team.budget

\* C2: the squad never holds more than 15 selections; addPlayer on a squad
\* of 15 fails with the squad-full error and leaves it at exactly 15.
C2_SquadSizeBound ==
  /\ Len(team.players) <= 15
  /\ Len(stored.players) <= 15
  /\ (call.op = "addPlayer" /\ Len(pre.players) = 15)
       => (outcome = "SquadFull" /\ team = pre /\ Len(team.players) = 15)

C2_Witness ==
  /\ call.op = "addPlayer"
  /\ Len(pre.players) = 15
  /\ outcome = "SquadFull"
  /\ Len(team.players) = 15

\* C3: after any setCaptain(p), exactly one selection is captain, it is the
\* selection of player p, and it is not vice-captain.
C3_CaptainExclusivity ==
  call.op = "setCaptain" =>
    /\ Cardinality(Captains(team)) = 1
    /\ \A i \in Captains(team) :
         /\ team.players[i].playerId = ObjectId(call.playerId)
         /\ ~team.players[i].isViceCaptain

\* C4: at most one captain, at most one vice-captain, nobody both.
C4_CaptainFlags ==
  /\ Cardinality(Captains(team)) <= 1
  /\ Cardinality(ViceCaptains(team)) <= 1
  /\ Captains(team) \cap ViceCaptains(team) = {}

\* C5: a call either succeeds with every FantasyTeam invariant holding, or
\* fails and leaves the document as it was before the call.
C5_NoPartialApplication ==
  /\ outcome = "ok" => (Validate(team) /\ C4_CaptainFlags)
  /\ Failed => team = pre

\* C6: addPlayer with price > remainingBudget fails with the
\* insufficient-budget error (on a squad that is not yet full, where the
\* budget guard is reached) and changes nothing; price == remainingBudget is
\* not rejected for budget reasons; remainingBudget is never negative.
C6_BudgetGuard ==
  /\ (call.op = "addPlayer" /\ Len(pre.players) < 15
        /\ NumLess(pre.remainingBudget, call.price))
       => (outcome = "InsufficientBudget" /\ team = pre)
  /\ (call.op = "addPlayer" /\ call.price = pre.remainingBudget)
       => outcome # "InsufficientBudget"
  /\ NumLeq(Zero, team.remainingBudget)

\* C7: addPlayer of a player already in the squad (when the squad-size and
\* budget guards pass) fails with the duplicate-player error and changes
\* nothing; no two selections share a playerId.
C7_NoDuplicatePlayers ==
  /\ (call.op = "addPlayer" /\ Len(pre.players) < 15
        /\ ~NumLess(pre.remainingBudget, call.price)
        /\ \E i \in Indices(pre) : ToString(pre.players[i].playerId) = call.playerId)
       => (outcome = "DuplicatePlayer" /\ team = pre)
  /\ \A i, j \in Indices(team) :
       i # j => team.players[i].playerId # team.players[j].playerId

C9_DerivedTotals ==
  /\ team.totalValue = SumPrices(team.players)
  /\ team.remainingBudget = NumSub(team.budget, SumPrices(team.players))

\* C10: once two concurrent addPlayer / removePlayer requests on the same
\* stored team have both completed, the stored remainingBudget is budget
\* minus the sum of the stored purchase prices and the stored totalValue is
\* that sum.
C10_NoLostUpdate ==
  (\A r \in ConcRequests : reqs[r].pc = "done") =>
    /\ db.doc.totalValue = SumPrices(db.doc.players)
    /\ db.doc.remainingBudget = NumSub(db.doc.budget, SumPrices(db.doc.players))

(***************************************************************************)
(* Properties of the Player and Team documents                             *)
(***************************************************************************)
\* the last call was a delete() that completed: soft, or hard
SoftDeleteDone == ecall.op = "delete" /\ ~ecall.hard /\ eout.status = "ok"

HardDeleteDone == ecall.op = "delete" /\ ecall.hard /\ eout.status = "ok"

\* C11: after a soft delete() the Player or Team is absent from find({})
\* and findById(id) but present in findDeleted(); after delete({hard: true}),
\* from Active or SoftDeleted, it is absent from all three.
C11_SoftDeleteVisibility ==
  /\ SoftDeleteDone =>
       /\ ecall.id \notin FindAll(ecall.kind)
       /\ FindById(ecall.kind, ecall.id) = {}
       /\ ecall.id \in FindDeleted(ecall.kind)
  /\ HardDeleteDone =>
       /\ ecall.id \notin FindAll(ecall.kind)
       /\ FindById(ecall.kind, ecall.id) = {}
       /\ ecall.id \notin FindDeleted(ecall.kind)

\* a soft-deleted record has just been hard-deleted
C11_Witness ==
  /\ HardDeleteDone
  /\ epre[ecall.id].sto.deletedAt # Null

\* C12: a stored Team whose deletedAt is set has isActive = false, in every
\* state reached by createTeam, update, delete, activate and deactivate.
C12_SoftDeleteImpliesInactive ==
  \A id \in EntityIds :
    ents[id].sto.kind = "Team" /\ ents[id].sto.deletedAt # Null
      => ~ents[id].sto.isActive

\* C13: activate() on a team that is not purged, inactive or soft-deleted,
\* leaves deletedAt = null and isActive = true, and once saved the team is
\* returned by find({}) and findById again; deactivate() leaves
\* isActive = false and deletedAt as it was.
C13_ActivateDeactivate ==
  /\ ecall.op = "activate" =>
       /\ ents[ecall.id].mem.isActive
       /\ ents[ecall.id].mem.deletedAt = Null
       /\ eout.status = "ok" =>
            /\ ents[ecall.id].sto.isActive
            /\ ents[ecall.id].sto.deletedAt = Null
            /\ ecall.id \in FindAll("Team")
            /\ FindById("Team", ecall.id) = {ecall.id}
  /\ ecall.op = "deactivate" =>
       /\ ~ents[ecall.id].mem.isActive
       /\ ents[ecall.id].mem.deletedAt = epre[ecall.id].mem.deletedAt
       /\ eout.status = "ok" =>
            /\ ~ents[ecall.id].sto.isActive
            /\ ents[ecall.id].sto.deletedAt = epre[ecall.id].sto.deletedAt

\* a soft-deleted team has just been restored by activate()
C13_Witness ==
  /\ ecall.op = "activate" /\ eout.status = "ok"
  /\ epre[ecall.id].sto.deletedAt # Null
  /\ ~epre[ecall.id].sto.isActive

\* C14: a stored Player whose deletedAt is set keeps it set in every later
\* state until the record is hard-deleted: no update or delete call makes a
\* soft-deleted Player Active again.
C14_PlayerNoRestore ==
  [][\A id \in EntityIds :
       ents[id].sto.kind = "Player" /\ ents[id].sto.deletedAt # Null
         => \/ ents'[id].sto.kind = "none"
            \/ /\ ents'[id].sto.kind = "Player"
               /\ ents'[id].sto.deletedAt # Null]_vars

\* an update of a soft-deleted Player has been saved
C14_Witness ==
  /\ ecall.op = "update" /\ ecall.kind = "Player" /\ eout.status = "ok"
  /\ epre[ecall.id].sto.deletedAt # Null
  /\ ents[ecall.id].sto # epre[ecall.id].sto

\* the concurrent creators by outcome
CreatorsWith(status) == {c \in Creators : creators[c].out.status = status}

AllCreatorsDone == \A c \in Creators : creators[c].pc = "done"

\* C15: of N concurrent createPlayer (or createTeam) calls with one
\* sportmonksId, under every interleaving of their validate and save steps,
\* exactly one succeeds, the other N-1 fail with a duplicate-key error, and
\* exactly one record with that sportmonksId is stored.
C15_ConcurrentCreate ==
  /\ Cardinality(CreatorsWith("ok")) <= 1
  /\ Cardinality({i \in Creators : ents[i].sto.kind # "none"}) = Cardinality(CreatorsWith("ok"))
  /\ AllCreatorsDone =>
       /\ Cardinality(CreatorsWith("ok")) = 1
       /\ Cardinality(CreatorsWith("DuplicateKey")) = NumCreators - 1
       /\ \E i \in Creators :
            /\ ents[i].sto = creators[i].doc
            /\ \A j \in Creators \ {i} : ents[j].sto = NoDoc

\* every call has returned, the one that won having validated last
C15_Witness ==
  /\ AllCreatorsDone
  /\ creators[NumCreators].out = Ok

\* the stored Players that hold the sportmonksId of the last call's payload
HoldersBefore ==
  {i \in EntityIds : /\ epre[i].sto.kind = "Player"
                     /\ epre[i].sto.sportmonksId = ecall.data.sportmonksId}

\* C16: createPlayer with the sportmonksId of an existing Player, Active or
\* soft-deleted, fails and stores nothing, with a duplicate-key error when
\* the payload is otherwise valid.
C16_GlobalUniqueness ==
  /\ ecall.op = "create" /\ ecall.kind = "Player"
  /\ HoldersBefore # {}
  => /\ eout.status \in {"DuplicateKey", "ValidationError"}
     /\ ValidationErrors(New("Player", ecall.data)) = {} => eout = DuplicateKeyError
     /\ ents = epre

\* the sportmonksId of a soft-deleted Player has just been refused
C16_Witness ==
  /\ ecall.op = "create" /\ ecall.kind = "Player"
  /\ eout = DuplicateKeyError
  /\ \E i \in HoldersBefore : epre[i].sto.deletedAt # Null

\* the merged document of the last update, and the rules it breaks
Merged == Assign(epre[ecall.id].mem, ecall.data)

BrokenRules ==
  IF ecall.kind = "Player"
  THEN (IF Merged.height \notin 100..250
        THEN {"Height must be between 100cm and 250cm"} ELSE {})
       \cup (IF Merged.position \notin PlayerPosition
             THEN {"Position must be one of: Goalkeeper, Defender, Midfielder, Forward"}
             ELSE {})
       \cup (IF Merged.imageUrl # <<>> /\ ~UrlRegexTest(Merged.imageUrl)
             THEN {"Image URL must be a valid HTTP/HTTPS URL"} ELSE {})
  ELSE (IF Merged.foundedYear < 1800
        THEN {"Founded year must be after 1800"} ELSE {})
       \cup (IF Merged.foundedYear > CurrentYear
             THEN {"Founded year cannot be in the future"} ELSE {})
       \cup (IF Merged.logoUrl # <<>> /\ ~UrlRegexTest(Merged.logoUrl)
             THEN {"Logo URL must be a valid HTTP/HTTPS URL"} ELSE {})

\* C17: update(data) on a Player or Team validates the merged document by
\* the rules of creation: an update that leaves a field outside its range,
\* enum or format is rejected with the messages creating such a document
\* gives, and the stored record keeps its values; otherwise it is saved.
C17_UpdateValidation ==
  ecall.op = "update" =>
    /\ eout.errors = BrokenRules
    /\ eout.errors = ValidationErrors(New(ecall.kind, Merged))
    /\ BrokenRules # {} =>
         /\ eout.status = "ValidationError"
         /\ ents[ecall.id].sto = epre[ecall.id].sto
    /\ BrokenRules = {} =>
         /\ eout.status = "ok"
         /\ ents[ecall.id].sto = Merged

\* update({ height: -10 }) of a valid stored Player has been rejected
C17_Witness ==
  /\ ecall.op = "update" /\ ecall.kind = "Player"
  /\ ecall.data = [height |-> 0 - 10]
  /\ eout = ValidationError({"Height must be between 100cm and 250cm"})
  /\ ents[ecall.id].sto = epre[ecall.id].sto
  /\ ValidationErrors(epre[ecall.id].mem) = {}

(***************************************************************************)
(* Properties of the scoring                                               *)
(***************************************************************************)
NonNegative(performance) == \A f \in PerformanceFields : performance[f] >= 0

LastStatOp == IF slog = <<>> THEN "none" ELSE slog[Len(slog)]

TwoUpdatesInARow ==
  /\ Len(slog) >= 2
  /\ slog[Len(slog)] = "updateFantasyPoints"
  /\ slog[Len(slog) - 1] = "updateFantasyPoints"

\* the positive and the negative part of the score, in half points
Contributions(p) ==
  2 * (p.appearances + 4 * p.goals + 3 * p.assists + 4 * p.cleanSheets
       + 5 * p.penaltiesSaved
       + (IF p.minutesPlayed >= 60 THEN 2 ELSE IF p.minutesPlayed >= 1 THEN 1 ELSE 0))
  + p.saves

Deductions(p) ==
  2 * (2 * p.penaltiesMissed + p.yellowCards + 3 * p.redCards + 2 * p.ownGoals)

\* C18: with non-negative counts, a second updateFantasyPoints right after
\* a first leaves fantasyPoints, averagePoints and pointsPerMinute as the
\* first left them; fantasyPoints is never negative, and is 0 when the
\* deductions are at least the positive contributions.
C18_IdempotentScoring ==
  /\ stats.doc.fantasy.fantasyPoints >= 0
  /\ stats.sto.fantasy.fantasyPoints >= 0
  /\ TwoUpdatesInARow /\ NonNegative(stats.doc.performance) =>
       /\ stats.doc.fantasy = sprev.doc.fantasy
       /\ stats.sto.fantasy = sprev.sto.fantasy
  /\ /\ LastStatOp = "updateFantasyPoints"
     /\ NonNegative(stats.doc.performance)
     /\ Deductions(stats.doc.performance) >= Contributions(stats.doc.performance)
     => stats.doc.fantasy.fantasyPoints = 0

\* two calls in a row on a snapshot whose deductions exceed its contributions
C18_Witness ==
  /\ TwoUpdatesInARow
  /\ NonNegative(stats.doc.performance)
  /\ Deductions(stats.doc.performance) > Contributions(stats.doc.performance)
  /\ Contributions(stats.doc.performance) > 0
  /\ stats.doc.fantasy.fantasyPoints = 0

\* the score the formula gives, in half points
ClaimedBonus(minutesPlayed) ==
  CASE minutesPlayed >= 60 -> 2
    [] minutesPlayed >= 1 /\ minutesPlayed <= 59 -> 1
    [] minutesPlayed = 0 -> 0

ClaimedPoints(p) ==
  MathMax(0,
    2 * (p.appearances * 1 + p.goals * 4 + p.assists * 3 + p.cleanSheets * 4
         + p.penaltiesSaved * 5 - p.penaltiesMissed * 2 - p.yellowCards * 1
         - p.redCards * 3 - p.ownGoals * 2 + ClaimedBonus(p.minutesPlayed))
    + p.saves)

\* C19: after updateFantasyPoints on non-negative counts the fantasy fields
\* depend on performance alone: fantasyPoints = max(0, weighted sum + bonus),
\* averagePoints = fantasyPoints / appearances (0 without appearances),
\* pointsPerMinute = fantasyPoints / minutesPlayed (0 without minutes); the
\* document is saved with these values.
C19_ScoringFormula ==
  LastStatOp = "updateFantasyPoints" /\ NonNegative(stats.doc.performance) =>
    LET p == stats.doc.performance
        f == stats.doc.fantasy
    IN  /\ f.fantasyPoints = ClaimedPoints(p)
        /\ f.averagePoints = IF p.appearances > 0
                             THEN Quotient(ClaimedPoints(p), p.appearances)
                             ELSE ZeroQuotient
        /\ f.pointsPerMinute = IF p.minutesPlayed > 0
                               THEN Quotient(ClaimedPoints(p), p.minutesPlayed)
                               ELSE ZeroQuotient
        /\ stats.sto = stats.doc

\* stale fantasy values have been replaced by a half-point score
C19_Witness ==
  /\ LastStatOp = "updateFantasyPoints"
  /\ NonNegative(stats.doc.performance)
  /\ sprev.doc.fantasy.fantasyPoints = Points(7)
  /\ stats.doc.fantasy.fantasyPoints % 2 = 1
  /\ stats.doc.fantasy.averagePoints.den > 1
  /\ stats.doc.performance.minutesPlayed = 60

(***************************************************************************)
(* Properties of the seasons                                               *)
(***************************************************************************)
\* C20: activateSeason on a season that is not Upcoming, and completeSeason
\* on a season that is not Active, fail with the illegal-transition error
\* and leave status, isFantasyActive, currentGameweek and transferDeadline
\* unchanged, in the document and in the store.
C20_TransitionGuards ==
  /\ seacall.op = "activateSeason" /\ seapre.doc.status # "upcoming" =>
       /\ seaout = "Can only activate upcoming seasons"
       /\ season = seapre
  /\ seacall.op = "completeSeason" /\ seapre.doc.status # "active" =>
       /\ seaout = "Can only complete active seasons"
       /\ season = seapre

\* activateSeason has been refused on an Active season that a save at this
\* time would have moved to Completed
C20_Witness ==
  /\ seacall.op = "activateSeason"
  /\ seapre.doc.status = "active"
  /\ seapre.doc.isFantasyActive
  /\ now > Time(seapre.doc.endDate)
  /\ seaout = "Can only activate upcoming seasons"

\* C21: when activateSeason succeeds on an Upcoming season, whatever the
\* time relative to its dates, the season the call and its save leave has
\* status Active and isFantasyActive = true.
C21_ActivateResult ==
  /\ seacall.op = "activateSeason" /\ seaout = "ok"
  /\ seapre.doc.status = "upcoming"
  => /\ season.doc.status = "active" /\ season.doc.isFantasyActive
     /\ season.sto.status = "active" /\ season.sto.isFantasyActive

\* C22: advanceGameweek adds exactly 1 to currentGameweek when it is below
\* totalGameweeks and otherwise fails with the gameweek-overflow error and
\* leaves it unchanged; currentGameweek stays within 1..totalGameweeks.
C22_AdvanceGameweek ==
  /\ seacall.op = "advanceGameweek" =>
       IF seapre.doc.currentGameweek < seapre.doc.totalGameweeks
       THEN /\ seaout = "ok"
            /\ season.doc.currentGameweek = seapre.doc.currentGameweek + 1
            /\ season.sto.currentGameweek = seapre.sto.currentGameweek + 1
       ELSE /\ seaout = "Cannot advance beyond total gameweeks"
            /\ season.doc.currentGameweek = seapre.doc.currentGameweek
            /\ season.sto.currentGameweek = seapre.sto.currentGameweek
  /\ season.doc.currentGameweek \in 1..season.doc.totalGameweeks
  /\ season.sto.currentGameweek \in 1..season.sto.totalGameweeks

\* a season advanced to its last gameweek has refused a further advance
C22_Witness ==
  /\ seacall.op = "advanceGameweek"
  /\ seaout = "Cannot advance beyond total gameweeks"
  /\ season.sto.currentGameweek = season.sto.totalGameweeks
  /\ season.sto.status = "active" /\ seapre.sto.status = "active"
  /\ season.sto.isFantasyActive

\* the time of the last call lies within the dates of the season it met
CalledWithinDates ==
  /\ Time(seapre.doc.startDate) <= seacall.at
  /\ seacall.at <= Time(seapre.doc.endDate)

CalledAfterEnd == Time(seapre.doc.endDate) < seacall.at

\* C23: whichever call saves it, an Upcoming season with startDate <= now
\* <= endDate is Active after the save, and an Active season with endDate <
\* now is Completed with isFantasyActive = false after the save.
C23_AutoTransition ==
  seaout = "ok" =>
    /\ seapre.doc.status = "upcoming" /\ CalledWithinDates =>
         season.doc.status = "active" /\ season.sto.status = "active"
    /\ seapre.doc.status = "active" /\ CalledAfterEnd =>
         /\ season.doc.status = "completed" /\ ~season.doc.isFantasyActive
         /\ season.sto.status = "completed" /\ ~season.sto.isFantasyActive

\* the save of advanceGameweek has completed an Active season past its end
C23_Witness ==
  /\ seacall.op = "advanceGameweek" /\ seaout = "ok"
  /\ seapre.sto.status = "active" /\ seapre.sto.isFantasyActive
  /\ CalledAfterEnd
  /\ season.sto.status = "completed"

\* C24: no call, and so no save, changes the status of a Cancelled season,
\* whatever the time.
C24_CancelledStays ==
  seapre.doc.status = "cancelled" =>
    season.doc.status = "cancelled" /\ season.sto.status = "cancelled"

\* a Cancelled season has been saved within its dates
C24_Witness ==
  /\ seapre.doc.status = "cancelled"
  /\ seacall.op \in {"advanceGameweek", "setTransferDeadline"}
  /\ seaout = "ok" /\ CalledWithinDates
  /\ season.sto # seapre.sto

\* the last call saved an Upcoming season and the hook, not activateSeason,
\* made it Active
PromotedByHook ==
  /\ seaout = "ok" /\ seacall.op # "activateSeason"
  /\ seapre.doc.status = "upcoming" /\ season.doc.status = "active"

\* C27: the promotion Upcoming -> Active of the pre-save hook changes only
\* status: isFantasyActive, currentGameweek and transferDeadline are as the
\* saving call set them, so isFantasyActive keeps its Upcoming value.
C27_PromotionFrame ==
  PromotedByHook =>
    /\ season.doc.isFantasyActive = seapre.doc.isFantasyActive
    /\ season.doc.currentGameweek =
         IF seacall.op = "advanceGameweek" THEN seapre.doc.currentGameweek + 1
         ELSE seapre.doc.currentGameweek
    /\ season.doc.transferDeadline =
         IF seacall.op = "setTransferDeadline" THEN seacall.deadline
         ELSE seapre.doc.transferDeadline
    /\ season.sto = season.doc

\* a season promoted by the hook is Active with isFantasyActive = false
C27_Witness ==
  /\ PromotedByHook
  /\ ~season.sto.isFantasyActive
  /\ season.sto.status = "active"

\* C28: for a season created Upcoming with isFantasyActive = false,
\* status = Completed implies isFantasyActive = false in every state, and no
\* call changes the status of a Completed season.
C28_CompletedIsFinal ==
  /\ season.doc.status = "completed" => ~season.doc.isFantasyActive
  /\ season.sto.status = "completed" => ~season.sto.isFantasyActive
  /\ seapre.doc.status = "completed" =>
       season.doc.status = "completed" /\ season.sto.status = "completed"

\* a Completed season has been saved again and is still Completed
C28_Witness ==
  /\ seapre.sto.status = "completed"
  /\ seaout = "ok"
  /\ season.sto # seapre.sto
  /\ season.sto.status = "completed"

\* C29: in every status advanceGameweek succeeds exactly when
\* currentGameweek < totalGameweeks; a Completed or Cancelled season can
\* still be advanced.
C29_AdvanceNotGated ==
  seacall.op = "advanceGameweek" =>
    \A status \in SeasonStatus :
      seapre.doc.status = status =>
        (seaout = "ok" <=> seapre.doc.currentGameweek < seapre.doc.totalGameweeks)

\* a Completed season has been advanced
C29_Witness ==
  /\ seacall.op = "advanceGameweek" /\ seaout = "ok"
  /\ seapre.sto.status = "completed"
  /\ season.sto.currentGameweek = seapre.sto.currentGameweek + 1

(***************************************************************************)
(* Properties of the matches                                               *)
(***************************************************************************)
\* C25: in every state reached through startMatch, updateScore, finishMatch
\* and postponeMatch, the stored match has a result exactly when its status
\* is finished, and the result is then the comparison of the two scores.
C25_ResultWhenFinished ==
  LET m == match.sto
  IN  /\ m.result # NoResult <=> m.status = "finished"
      /\ m.status = "finished" =>
           /\ m.homeTeamScore # Undefined /\ m.awayTeamScore # Undefined
           /\ m.result = ResultOf(m.homeTeamScore.goals, m.awayTeamScore.goals)

(***************************************************************************)
(* Properties of the age of a player                                       *)
(***************************************************************************)
\* value is the midnight of the calendar day with today's month and day of
\* the month, fifteen years earlier
ExactlyFifteenYearsBefore(value, today) ==
  /\ Time(value) % UnitsPerDay = 0
  /\ GetFullYear(Time(value)) = GetFullYear(today) - 15
  /\ GetMonth(Time(value)) = GetMonth(today)
  /\ GetDate(Time(value)) = GetDate(today)

OneDayEarlier(value) == Date(Time(value) - UnitsPerDay)

C30_ValidatorAgreesWithGetAge ==
  (/\ agecheck.validation = "ok"
   /\ agecheck.dateOfBirth # Null
   /\ agecheck.aged)
  => agecheck.age[1] >= 15

====
